---- MODULE Spec2Model ----
(***************************************************************************)
(* Hero canvas particle mesh of src/src/js/main.js (initCanvas) together   *)
(* with the throttle helper it uses, the typing effect, the mobile menu    *)
(* and the contact form of the same script, and scripts/deploy.sh.         *)
(*                                                                         *)
(* Numbers.  The script computes in floating point.  The model computes    *)
(* exactly, on a fixed-point grid: Math.random() returns k / RandDen       *)
(* (0 <= k < RandDen) and a length is a whole number of units, with        *)
(* UnitsPerPx units to the pixel.  UnitsPerPx = 40 * RandDen makes every   *)
(* quantity the script derives from a random draw a whole number:          *)
(*   x  = (k/RandDen) * width                  = 40 * k * width    units   *)
(*   vx = (k/RandDen - 0.5) * 0.45 px          = 9 * (2k - RandDen) units  *)
(*   r  = (k/RandDen) * 1.8 + 0.8 px           = 72k + 32 RandDen  units   *)
(* Math.sqrt is taken down to the grid (the largest d with d*d <= n), so   *)
(* sqrt(n) < c holds of the model exactly when it holds of the reals.      *)
(***************************************************************************)
EXTENDS Integers, Sequences, FiniteSets, TLC

VARIABLES
    pc,             \* "load": initCanvas has not run; "run": it has
    hidden,         \* document.hidden
    viewport,       \* host: [innerWidth, offsetWidth, offsetHeight] in px
    width,          \* let width   (px)
    height,         \* let height  (px)
    PARTICLE_COUNT, \* const PARTICLE_COUNT
    particles,      \* let particles: sequence of Particle records
    animId,         \* let animId: last handle of requestAnimationFrame (0: undefined)
    pending,        \* host: handles of the frame requests that are outstanding
    now,            \* host: Date.now()
    last,           \* throttle's closure variable of the resize listener
    lastVis,        \* what the last visibilitychange reported: "none", "hidden", "visible"
    cleared,        \* the last step called ctx.clearRect (it ran frame())
    rebuilt,        \* the last step called buildParticles()
    arcs,           \* the circles the last step filled, in order
    lines,          \* the lines the last step stroked, in order
    resizeLog,      \* the last two resize events: [at, since, ran]
    moves,          \* move() calls applied to each particle of the current set
    tIn,            \* colour probe: two factors t1, t2 as numerators over ProbeDen
    cOut,           \* colour probe: <<>> or the colours of t1, t2 and their average
    ops,            \* the calls the last step made from frame(), in order
    dom,            \* host: ids of the elements the document has
    listeners,      \* host: the event listeners the script has added
    scriptError,    \* host: the script stopped on an uncaught exception
    timers,         \* host: the setTimeout callbacks that are pending, oldest first
    event,          \* host: the event whose handlers the last step ran
    wordIdx,        \* initTyping: let wordIdx
    charIdx,        \* initTyping: let charIdx
    deleting,       \* initTyping: let deleting
    paused,         \* initTyping: let paused
    textContent,    \* el.textContent of #typed-text, a sequence of characters
    ariaExpanded,   \* the aria-expanded attribute of #nav-toggle
    menuOpen,       \* #nav-links has the class "open"
    bodyOverflow,   \* document.body.style.overflow
    formErrors,     \* the .form__error elements of the form, in document order
    btn,            \* the submit button: [label, disabled]
    verdict,        \* the last submit event: "none", "prevented", "proceeded"
    shPc,           \* deploy.sh: the step the script is at
    envFile,        \* deploy.sh: the file .env exists
    config,         \* deploy.sh: the three settings once .env is sourced
    SKIP_BUILD,     \* deploy.sh: --skip-build was given
    srcTree,        \* the files of src/
    DIST,           \* dist/: [dir, files], dir FALSE when there is no such directory
    exitStatus,     \* deploy.sh: -1 while it runs, then its exit status
    trace,          \* deploy.sh: the steps that have run to their end, in order
    bucket          \* the objects of the bucket: key -> metadata

canvasVars == <<pc, hidden, viewport, width, height, PARTICLE_COUNT, particles, animId,
                pending, now, last, lastVis, cleared, rebuilt, arcs, lines, resizeLog,
                moves, tIn, cOut, ops>>

typingVars == <<wordIdx, charIdx, deleting, paused, textContent>>

menuVars == <<ariaExpanded, menuOpen, bodyOverflow>>

formVars == <<formErrors, btn, verdict>>

pageVars == <<dom, listeners, scriptError, timers, event, typingVars, menuVars, formVars>>

shellVars == <<shPc, envFile, config, SKIP_BUILD, srcTree, DIST, exitStatus, trace, bucket>>

vars == <<canvasVars, pageVars, shellVars>>

(***************************************************************************)
(* Bounds of the model                                                     *)
(***************************************************************************)
RandDen == 3
MaxMoves == 3
MaxRun == 46
MaxTicks == 2
TickMs == 100
StartTime == 1000
MaxHandles == 4
ProbeDen == 10
MaxTimers == 2

(***************************************************************************)
(* Program constants                                                       *)
(***************************************************************************)
ACCENT == [r |-> 124, g |-> 109, b |-> 250]
CYAN == [r |-> 34, g |-> 211, b |-> 238]
MAX_PARTICLES == 70
PX_PER_PARTICLE == 16
CONNECT_DIST == 160
WRAP_MARGIN == 10
RESIZE_LIMIT == 200

UnitsPerPx == 40 * RandDen

Px(n) == n * UnitsPerPx

Min(a, b) == IF a < b THEN a ELSE b

Abs(a) == IF a < 0 THEN -a ELSE a

(***************************************************************************)
(* Math.round: the nearest integer, a half going up.  n / d with d > 0.    *)
(***************************************************************************)
MathRoundFloor(n, d) == n \div d

MathRound(n, d) == (2 * n + d) \div (2 * d)

(***************************************************************************)
(* Math.sqrt on the grid: the largest d with d * d <= n.                   *)
(***************************************************************************)
RECURSIVE SqrtIn(_, _, _)
SqrtIn(n, lo, hi) ==
    IF lo >= hi THEN lo
    ELSE LET mid == (lo + hi + 1) \div 2
         IN IF mid * mid <= n THEN SqrtIn(n, mid, hi) ELSE SqrtIn(n, lo, mid - 1)

MathSqrt(n) == SqrtIn(n, 0, 46340)

(***************************************************************************)
(* throttle(fn, limit): the wrapped function calls fn when this holds.     *)
(***************************************************************************)
throttleOff(nowMs, lastMs, limit) == nowMs - lastMs >= 0

throttleHalf(nowMs, lastMs, limit) == 2 * (nowMs - lastMs) >= limit

throttle(nowMs, lastMs, limit) == nowMs - lastMs >= limit

(***************************************************************************)
(* PARTICLE_COUNT = Math.min(70, Math.floor(window.innerWidth / 16))       *)
(***************************************************************************)
ParticleCountUncapped(innerWidth) == innerWidth \div PX_PER_PARTICLE

ParticleCount(innerWidth) == Min(MAX_PARTICLES, innerWidth \div PX_PER_PARTICLE)

(***************************************************************************)
(* lerp(a, b, t) with t = tn / td: the numerator of the result over td.    *)
(***************************************************************************)
lerp(a, b, tn, td) == a * td + (b - a) * tn

interpolateColorTrunc(tn, td) ==
    [r |-> MathRoundFloor(lerp(ACCENT.r, CYAN.r, tn, td), td),
     g |-> MathRoundFloor(lerp(ACCENT.g, CYAN.g, tn, td), td),
     b |-> MathRoundFloor(lerp(ACCENT.b, CYAN.b, tn, td), td)]

interpolateColor(tn, td) ==
    [r |-> MathRound(lerp(ACCENT.r, CYAN.r, tn, td), td),
     g |-> MathRound(lerp(ACCENT.g, CYAN.g, tn, td), td),
     b |-> MathRound(lerp(ACCENT.b, CYAN.b, tn, td), td)]

(***************************************************************************)
(* Particle.  A draw is the six results of Math.random() that reset()      *)
(* consumes, in order, as numerators over RandDen.                         *)
(***************************************************************************)
reset(rnd, w, h) ==
    [x  |-> 40 * rnd[1] * w,
     y  |-> 40 * rnd[2] * h,
     vx |-> 9 * (2 * rnd[3] - RandDen),
     vy |-> 9 * (2 * rnd[4] - RandDen),
     r  |-> 72 * rnd[5] + 32 * RandDen,
     t  |-> rnd[6]]

wrapNoLow(c, size) ==
    IF c > Px(size + WRAP_MARGIN) THEN -Px(WRAP_MARGIN) ELSE c

wrap(c, size) ==
    LET c1 == IF c < -Px(WRAP_MARGIN) THEN Px(size + WRAP_MARGIN) ELSE c
    IN IF c1 > Px(size + WRAP_MARGIN) THEN -Px(WRAP_MARGIN) ELSE c1

moveDrag(p, w, h) ==
    [p EXCEPT !.x = wrap(p.x + p.vx, w), !.y = wrap(p.y + p.vy, h),
              !.vx = IF p.x + p.vx < -Px(WRAP_MARGIN) THEN -p.vx ELSE p.vx]

move(p, w, h) ==
    [p EXCEPT !.x = wrap(p.x + p.vx, w), !.y = wrap(p.y + p.vy, h)]

draw(p) == [x |-> p.x, y |-> p.y, r |-> p.r, c |-> interpolateColor(p.t, RandDen)]

(***************************************************************************)
(* The random source.  A sample is the run of draws one buildParticles()   *)
(* call consumes, one draw for each particle, repeated when it runs out.   *)
(***************************************************************************)
RandomSamples ==
    { << <<0, 0, 0, 0, 0, 0>>, <<0, 1, 0, 0, 1, 1>>, <<0, 2, 0, 0, 2, 2>>,
         <<1, 1, 0, 0, 1, 2>> >>,
      << <<2, 2, 2, 2, 0, 1>>, <<1, 0, 2, 0, 1, 2>>, <<0, 1, 1, 2, 2, 0>> >> }

buildParticles(sample, count, w, h) ==
    [i \in 1..count |-> reset(sample[((i - 1) % Len(sample)) + 1], w, h)]

(***************************************************************************)
(* drawLines: the pairs i < j in the order of the two loops.               *)
(***************************************************************************)
nearOrAt(dx, dy) ==
    /\ Abs(dx) <= Px(CONNECT_DIST)
    /\ Abs(dy) <= Px(CONNECT_DIST)
    /\ dx * dx + dy * dy <= Px(CONNECT_DIST) * Px(CONNECT_DIST)

near(dx, dy) ==
    /\ Abs(dx) < Px(CONNECT_DIST)
    /\ Abs(dy) < Px(CONNECT_DIST)
    /\ dx * dx + dy * dy < Px(CONNECT_DIST) * Px(CONNECT_DIST)

line(ps, i, j) ==
    LET dx == ps[i].x - ps[j].x
        dy == ps[i].y - ps[j].y
        dist == MathSqrt(dx * dx + dy * dy)
    IN [i |-> i, j |-> j, dist |-> dist,
        alphaNum |-> (Px(CONNECT_DIST) - dist) * 18,
        alphaDen |-> Px(CONNECT_DIST) * 100,
        c |-> interpolateColor(ps[i].t + ps[j].t, 2 * RandDen)]

rowLines(ps, i) ==
    LET js == [k \in 1..(Len(ps) - i) |-> i + k]
        sel == SelectSeq(js, LAMBDA j : near(ps[i].x - ps[j].x, ps[i].y - ps[j].y))
    IN [k \in 1..Len(sel) |-> line(ps, i, sel[k])]

RECURSIVE linesFrom(_, _)
linesFrom(ps, i) ==
    IF i >= Len(ps) THEN <<>> ELSE rowLines(ps, i) \o linesFrom(ps, i + 1)

drawLines(ps) == linesFrom(ps, 1)

(***************************************************************************)
(* The host.  A handle of requestAnimationFrame is only ever compared with *)
(* other handles, so one that is neither outstanding nor held in animId    *)
(* can be handed out again.  A frame callback may be delivered whenever    *)
(* its request is outstanding: whether a hidden page still gets rendering  *)
(* opportunities is left to the browser.                                   *)
(***************************************************************************)
Handles == 1..MaxHandles

FreeHandles == Handles \ (pending \cup {animId})

requestAnimationFrame == CHOOSE h \in FreeHandles : \A g \in FreeHandles : h <= g

Viewports ==
    { [innerWidth |-> 15, offsetWidth |-> 15, offsetHeight |-> 8],
      [innerWidth |-> 64, offsetWidth |-> 64, offsetHeight |-> 240] }

NarrowViewports ==
    { [innerWidth |-> 15, offsetWidth |-> 15, offsetHeight |-> 8],
      [innerWidth |-> 12, offsetWidth |-> 12, offsetHeight |-> 6] }

WideViewports ==
    { [innerWidth |-> 320, offsetWidth |-> 320, offsetHeight |-> 480],
      [innerWidth |-> 1024, offsetWidth |-> 1024, offsetHeight |-> 768],
      [innerWidth |-> 2000, offsetWidth |-> 2000, offsetHeight |-> 1000] }

(***************************************************************************)
(* The document and the rest of the script.  The markup is the host's: an  *)
(* element is looked up by its id and may be missing.  A pending timer is  *)
(* [fn, el]: the callback and, for the callback that removes an error      *)
(* message, the element its closure holds.                                 *)
(***************************************************************************)
Elements == {"hero-canvas", "typed-text", "nav", "nav-toggle", "nav-links", "contact-form"}

timer(fn, el) == [fn |-> fn, el |-> el]

words ==
    << <<"w", "e", "b">>,
       <<"c", "l", "o", "u", "d">>,
       <<"t", "h", "e", " ", "f", "u", "t", "u", "r", "e">> >>

SendMessage == "Send Message"

OpeningMailClient == "Opening mail client"

noDir == [dir |-> FALSE, files |-> {}]

dir(fs) == [dir |-> TRUE, files |-> fs]

dispatch(type, target, detail) == [type |-> type, target |-> target, detail |-> detail]

PageLoaded(D) ==
    /\ dom \in D
    /\ event = dispatch("none", "none", <<>>)
    /\ listeners = {}
    /\ scriptError = FALSE
    /\ timers = <<>>
    /\ wordIdx = 0
    /\ charIdx = 0
    /\ deleting = FALSE
    /\ paused = FALSE
    /\ textContent = <<>>
    /\ ariaExpanded = "false"
    /\ menuOpen = FALSE
    /\ bodyOverflow = ""
    /\ formErrors = <<>>
    /\ btn = [label |-> SendMessage, disabled |-> FALSE]
    /\ verdict = "none"

ShellIdle ==
    /\ shPc = "idle"
    /\ envFile = FALSE
    /\ config = <<>>
    /\ SKIP_BUILD = FALSE
    /\ srcTree = {}
    /\ DIST = noDir
    /\ exitStatus = -1
    /\ trace = <<>>
    /\ bucket = <<>>

CanvasLoaded(V) ==
    /\ pc = "load"
    /\ hidden \in BOOLEAN
    /\ viewport \in V
    /\ width = 0
    /\ height = 0
    /\ PARTICLE_COUNT = 0
    /\ particles = <<>>
    /\ animId = 0
    /\ pending = {}
    /\ now = StartTime
    /\ last = 0
    /\ lastVis = "none"
    /\ cleared = FALSE
    /\ rebuilt = FALSE
    /\ arcs = <<>>
    /\ lines = <<>>
    /\ resizeLog = <<>>
    /\ moves = 0
    /\ cOut = <<>>
    /\ ops = <<>>

Loaded(V) == CanvasLoaded(V) /\ PageLoaded({Elements}) /\ ShellIdle

InitOn(V) == Loaded(V) /\ tIn = <<0, 0>>

Init == InitOn(Viewports)

(***************************************************************************)
(* frame(): clear, move and draw every particle, draw the lines, request   *)
(* the next frame.  ps, w, h are particles, width, height as frame() finds *)
(* them; outstanding is the host's set of requests when frame() starts.    *)
(***************************************************************************)
call(name, i, j) == [call |-> name, i |-> i, j |-> j]

forEachMoveDraw(n) ==
    [k \in 1..(2 * n) |-> IF k % 2 = 1 THEN call("move", (k + 1) \div 2, 0)
                                       ELSE call("draw", k \div 2, 0)]

strokes(ls) == [k \in 1..Len(ls) |-> call("stroke", ls[k].i, ls[k].j)]

frameCallsLinesFirst(n, ls) ==
    <<call("clearRect", 0, 0)>> \o strokes(ls) \o forEachMoveDraw(n)
        \o <<call("requestAnimationFrame", 0, 0)>>

frameCalls(n, ls) ==
    <<call("clearRect", 0, 0)>> \o forEachMoveDraw(n) \o strokes(ls)
        \o <<call("requestAnimationFrame", 0, 0)>>

frame(ps, w, h, outstanding) ==
    LET moved == [i \in 1..Len(ps) |-> move(ps[i], w, h)]
    IN /\ FreeHandles # {}
       /\ cleared' = TRUE
       /\ particles' = moved
       /\ arcs' = [i \in 1..Len(moved) |-> draw(moved[i])]
       /\ lines' = drawLines(moved)
       /\ ops' = frameCalls(Len(moved), lines')
       /\ animId' = requestAnimationFrame
       /\ pending' = outstanding \cup {requestAnimationFrame}

(***************************************************************************)
(* initCanvas runs: PARTICLE_COUNT is fixed, the two listeners are added,  *)
(* then resize(); buildParticles(); frame().                               *)
(***************************************************************************)
initCanvasUnguarded(d) == FALSE

initCanvasReturns(d) == "hero-canvas" \notin d

initCanvas ==
    /\ PARTICLE_COUNT' = ParticleCount(viewport.innerWidth)
    /\ width' = viewport.offsetWidth
    /\ height' = viewport.offsetHeight
    /\ rebuilt' = TRUE
    /\ \E sample \in RandomSamples :
           frame(buildParticles(sample, PARTICLE_COUNT', width', height'),
                 width', height', pending)
    /\ moves' = IF PARTICLE_COUNT' = 0 THEN 0 ELSE 1

initTyping(d) == IF "typed-text" \in d THEN <<timer("tick", 0)>> ELSE <<>>

initReveal == <<timer("reveal", 0)>>

initNav(d) == IF "nav" \in d THEN {"scroll"} ELSE {}

initHamburger(d) ==
    IF "nav-toggle" \in d /\ "nav-links" \in d
    THEN {"toggle.click", "a.click", "keydown", "document.click"}
    ELSE {}

initContactForm(d) == IF "contact-form" \in d THEN {"submit"} ELSE {}

Startup ==
    /\ pc = "load"
    /\ pc' = "run"
    /\ IF initCanvasReturns(dom)
       THEN /\ scriptError' = FALSE
            /\ UNCHANGED <<PARTICLE_COUNT, width, height, rebuilt, cleared, particles,
                           arcs, lines, ops, animId, pending, moves>>
       ELSE IF "hero-canvas" \in dom
       THEN /\ scriptError' = FALSE
            /\ initCanvas
       ELSE /\ scriptError' = TRUE
            /\ UNCHANGED <<PARTICLE_COUNT, width, height, rebuilt, cleared, particles,
                           arcs, lines, ops, animId, pending, moves>>
    /\ IF scriptError'
       THEN UNCHANGED <<listeners, timers>>
       ELSE /\ listeners' =
                   (IF "hero-canvas" \in dom THEN {"visibilitychange", "resize"} ELSE {})
                   \cup initNav(dom) \cup initHamburger(dom) \cup initContactForm(dom)
            /\ timers' = initTyping(dom) \o initReveal
    /\ event' = dispatch("load", "script", <<>>)
    /\ UNCHANGED <<hidden, viewport, now, last, lastVis, resizeLog, tIn, cOut>>
    /\ UNCHANGED <<dom, typingVars, menuVars, formVars, shellVars>>

(***************************************************************************)
(* The host delivers the frame callback of the outstanding request h.  A   *)
(* set of particles is followed for cap frames; an empty one has nothing   *)
(* to follow.                                                              *)
(***************************************************************************)
FrameCallback(cap) ==
    /\ pc = "run"
    /\ PARTICLE_COUNT = 0 \/ moves < cap
    /\ \E h \in pending : frame(particles, width, height, pending \ {h})
    /\ rebuilt' = FALSE
    /\ moves' = IF PARTICLE_COUNT = 0 THEN 0 ELSE moves + 1
    /\ UNCHANGED <<pc, hidden, viewport, width, height, PARTICLE_COUNT, now, last,
                   lastVis, resizeLog, tIn, cOut>>
    /\ UNCHANGED <<pageVars, shellVars>>

(***************************************************************************)
(* The page's visibility changes and the visibilitychange listener runs.   *)
(***************************************************************************)
VisibilityChangeNoResume ==
    /\ "visibilitychange" \in listeners
    /\ hidden' = ~hidden
    /\ pending' = pending \ {animId}
    /\ animId' = animId
    /\ lastVis' = IF hidden' THEN "hidden" ELSE "visible"
    /\ cleared' = FALSE
    /\ rebuilt' = FALSE
    /\ arcs' = <<>>
    /\ lines' = <<>>
    /\ ops' = <<>>
    /\ UNCHANGED <<pc, viewport, width, height, PARTICLE_COUNT, particles, now, last,
                   resizeLog, moves, tIn, cOut>>
    /\ UNCHANGED <<pageVars, shellVars>>

VisibilityChange ==
    /\ "visibilitychange" \in listeners
    /\ hidden' = ~hidden
    /\ IF hidden'
       THEN /\ pending' = pending \ {animId}
            /\ animId' = animId
            /\ lastVis' = "hidden"
       ELSE /\ FreeHandles # {}
            /\ animId' = requestAnimationFrame
            /\ pending' = pending \cup {requestAnimationFrame}
            /\ lastVis' = "visible"
    /\ cleared' = FALSE
    /\ rebuilt' = FALSE
    /\ arcs' = <<>>
    /\ lines' = <<>>
    /\ ops' = <<>>
    /\ UNCHANGED <<pc, viewport, width, height, PARTICLE_COUNT, particles, now, last,
                   resizeLog, moves, tIn, cOut>>
    /\ UNCHANGED <<pageVars, shellVars>>

(***************************************************************************)
(* The viewport takes a size of V and the throttled resize listener runs.  *)
(***************************************************************************)
Last2(s) == IF Len(s) <= 2 THEN s ELSE SubSeq(s, Len(s) - 1, Len(s))

ResizeEvent(V) ==
    /\ "resize" \in listeners
    /\ \E v \in V :
         /\ viewport' = v
         /\ IF throttle(now, last, RESIZE_LIMIT)
            THEN /\ last' = now
                 /\ width' = v.offsetWidth
                 /\ height' = v.offsetHeight
                 /\ \E sample \in RandomSamples :
                        particles' = buildParticles(sample, PARTICLE_COUNT, width', height')
                 /\ moves' = 0
                 /\ rebuilt' = TRUE
            ELSE /\ rebuilt' = FALSE
                 /\ UNCHANGED <<last, width, height, particles, moves>>
    /\ resizeLog' = Last2(Append(resizeLog,
                              [at |-> now, since |-> now - last, ran |-> rebuilt']))
    /\ cleared' = FALSE
    /\ arcs' = <<>>
    /\ lines' = <<>>
    /\ ops' = <<>>
    /\ UNCHANGED <<pc, hidden, PARTICLE_COUNT, animId, pending, now, lastVis, tIn, cOut>>
    /\ UNCHANGED <<pageVars, shellVars>>

(***************************************************************************)
(* Time passes.                                                            *)
(***************************************************************************)
Tick ==
    /\ now + TickMs <= StartTime + MaxTicks * TickMs
    /\ now' = now + TickMs
    /\ cleared' = FALSE
    /\ rebuilt' = FALSE
    /\ arcs' = <<>>
    /\ lines' = <<>>
    /\ ops' = <<>>
    /\ UNCHANGED <<pc, hidden, viewport, width, height, PARTICLE_COUNT, particles,
                   animId, pending, last, lastVis, resizeLog, moves, tIn, cOut>>
    /\ UNCHANGED <<pageVars, shellVars>>

Next ==
    \/ Startup
    \/ FrameCallback(MaxMoves)
    \/ VisibilityChange
    \/ ResizeEvent(Viewports)
    \/ Tick

Spec == Init /\ [][Next]_vars

(***************************************************************************)
(* The field over a long run of frames.  A visibility change touches only  *)
(* animId and the host's requests, never the particles: it is left to Spec.*)
(***************************************************************************)
FieldNext ==
    \/ Startup
    \/ FrameCallback(MaxRun)
    \/ ResizeEvent(Viewports)
    \/ Tick

FieldSpec == Init /\ [][FieldNext]_vars

(***************************************************************************)
(* Sizing at the widths of desktop and phone screens: startup and resize.  *)
(***************************************************************************)
SizingInit == InitOn(WideViewports)

SizingNext ==
    \/ Startup
    \/ ResizeEvent(WideViewports)
    \/ Tick

SizingSpec == SizingInit /\ [][SizingNext]_vars

(***************************************************************************)
(* The loop under fair delivery of frame callbacks: the host runs the      *)
(* callback of an outstanding request unless the request is cancelled.     *)
(* Nothing obliges the user to resize or to switch tabs.                   *)
(***************************************************************************)
LiveInit == InitOn(NarrowViewports)

LiveNext ==
    \/ Startup
    \/ FrameCallback(MaxMoves)
    \/ VisibilityChange
    \/ ResizeEvent(NarrowViewports)
    \/ Tick

LiveSpec ==
    /\ LiveInit
    /\ [][LiveNext]_vars
    /\ WF_vars(Startup)
    /\ WF_vars(FrameCallback(MaxMoves))

(***************************************************************************)
(* interpolateColor on its own: two factors t1 = tIn[1] / ProbeDen and     *)
(* t2 = tIn[2] / ProbeDen of [0, 1], and their average as drawLines takes  *)
(* it for the line between two particles.                                  *)
(***************************************************************************)
ColorInit == Loaded(Viewports) /\ tIn \in (0..ProbeDen) \X (0..ProbeDen)

Interpolate ==
    /\ cOut = <<>>
    /\ cOut' = [c1 |-> interpolateColor(tIn[1], ProbeDen),
                c2 |-> interpolateColor(tIn[2], ProbeDen),
                avg |-> interpolateColor(tIn[1] + tIn[2], 2 * ProbeDen)]
    /\ UNCHANGED <<pc, hidden, viewport, width, height, PARTICLE_COUNT, particles,
                   animId, pending, now, last, lastVis, cleared, rebuilt, arcs, lines,
                   resizeLog, moves, tIn, ops>>
    /\ UNCHANGED <<pageVars, shellVars>>

ColorNext == Interpolate

ColorSpec == ColorInit /\ [][ColorNext]_vars

(***************************************************************************)
(* Pages whose markup lacks some of the elements the script looks up.  An  *)
(* event nobody listens to still happens: the page is hidden or shown, the *)
(* window takes another size.                                              *)
(***************************************************************************)
Documents == {Elements \ gone : gone \in SUBSET {"hero-canvas", "typed-text", "contact-form"}}

UnheardEvent(V) ==
    /\ pc = "run"
    /\ \/ /\ "visibilitychange" \notin listeners
          /\ hidden' = ~hidden
          /\ UNCHANGED viewport
       \/ /\ "resize" \notin listeners
          /\ viewport' \in V
          /\ UNCHANGED hidden
    /\ cleared' = FALSE
    /\ rebuilt' = FALSE
    /\ arcs' = <<>>
    /\ lines' = <<>>
    /\ ops' = <<>>
    /\ UNCHANGED <<pc, width, height, PARTICLE_COUNT, particles, animId, pending, now,
                   last, lastVis, resizeLog, moves, tIn, cOut>>
    /\ UNCHANGED <<pageVars, shellVars>>

AbsentInit ==
    /\ CanvasLoaded(NarrowViewports)
    /\ tIn = <<0, 0>>
    /\ PageLoaded(Documents)
    /\ ShellIdle

AbsentNext ==
    \/ Startup
    \/ FrameCallback(MaxMoves)
    \/ VisibilityChange
    \/ ResizeEvent(NarrowViewports)
    \/ UnheardEvent(NarrowViewports)
    \/ Tick

AbsentSpec == AbsentInit /\ [][AbsentNext]_vars

(***************************************************************************)
(* The typing effect and the mobile menu.  A timer that is pending may     *)
(* expire; which of several expires first is left to their delays, which   *)
(* the model does not follow.                                              *)
(***************************************************************************)
Remove(q, k) == [i \in 1..(Len(q) - 1) |-> IF i < k THEN q[i] ELSE q[i + 1]]

Pending(fn) == {k \in 1..Len(timers) : timers[k].fn = fn}

sliceThrough(str, end) == SubSeq(str, 1, Min(end + 1, Len(str)))

slice(str, end) ==
    IF end < 0
    THEN SubSeq(str, 1, IF Len(str) + end < 0 THEN 0 ELSE Len(str) + end)
    ELSE SubSeq(str, 1, Min(end, Len(str)))

tick(isDeleting, isPaused, queue) ==
    LET current == words[wordIdx + 1]
    IN IF isDeleting
       THEN /\ charIdx' = charIdx - 1
            /\ textContent' = slice(current, charIdx')
            /\ paused' = isPaused
            /\ IF charIdx' = 0
               THEN /\ deleting' = FALSE
                    /\ wordIdx' = (wordIdx + 1) % Len(words)
                    /\ timers' = Append(queue, timer("tick", 0))
               ELSE /\ deleting' = isDeleting
                    /\ wordIdx' = wordIdx
                    /\ timers' = Append(queue, timer("tick", 0))
       ELSE /\ charIdx' = charIdx + 1
            /\ textContent' = slice(current, charIdx')
            /\ deleting' = isDeleting
            /\ wordIdx' = wordIdx
            /\ IF charIdx' = Len(current)
               THEN IF ~isPaused
                    THEN /\ paused' = TRUE
                         /\ timers' = Append(queue, timer("resume", 0))
                    ELSE /\ paused' = isPaused
                         /\ timers' = queue
               ELSE /\ paused' = isPaused
                    /\ timers' = Append(queue, timer("tick", 0))

TickTimeout ==
    /\ \E k \in Pending("tick") : tick(deleting, paused, Remove(timers, k))
    /\ event' = dispatch("timeout", "tick", <<>>)
    /\ UNCHANGED <<dom, listeners, scriptError, menuVars, formVars>>
    /\ UNCHANGED <<canvasVars, shellVars>>

ResumeTimeout ==
    /\ \E k \in Pending("resume") : tick(TRUE, FALSE, Remove(timers, k))
    /\ event' = dispatch("timeout", "resume", <<>>)
    /\ UNCHANGED <<dom, listeners, scriptError, menuVars, formVars>>
    /\ UNCHANGED <<canvasVars, shellVars>>

RevealTimeout ==
    /\ \E k \in Pending("reveal") : timers' = Remove(timers, k)
    /\ event' = dispatch("timeout", "reveal", <<>>)
    /\ UNCHANGED <<dom, listeners, scriptError, typingVars, menuVars, formVars>>
    /\ UNCHANGED <<canvasVars, shellVars>>

toggleContains(target) == target = "toggle"

menuContains(target) == target \in {"link", "menu"}

outsideMenuOnly(target) == ~menuContains(target)

outside(target) == ~toggleContains(target) /\ ~menuContains(target)

closed == [aria |-> "false", open |-> FALSE, overflow |-> ""]

toggled(m) ==
    LET expanded == m.aria = "true"
    IN [aria |-> IF expanded THEN "false" ELSE "true",
        open |-> ~expanded,
        overflow |-> IF expanded THEN "" ELSE "hidden"]

Targets == {"toggle", "link", "menu", "outside"}

Click ==
    /\ "document.click" \in listeners
    /\ \E target \in Targets :
         LET m0 == [aria |-> ariaExpanded, open |-> menuOpen, overflow |-> bodyOverflow]
             m1 == IF toggleContains(target) THEN toggled(m0)
                   ELSE IF target = "link" THEN closed
                   ELSE m0
             m2 == IF outside(target) THEN closed ELSE m1
         IN /\ ariaExpanded' = m2.aria
            /\ menuOpen' = m2.open
            /\ bodyOverflow' = m2.overflow
            /\ event' = dispatch("click", target, <<>>)
    /\ UNCHANGED <<dom, listeners, scriptError, timers, typingVars, formVars>>
    /\ UNCHANGED <<canvasVars, shellVars>>

Keys == {"Escape", "Enter"}

KeyDown ==
    /\ "keydown" \in listeners
    /\ \E key \in Keys :
         /\ IF key = "Escape"
            THEN /\ ariaExpanded' = closed.aria
                 /\ menuOpen' = closed.open
                 /\ bodyOverflow' = closed.overflow
            ELSE UNCHANGED menuVars
         /\ event' = dispatch("keydown", key, <<>>)
    /\ UNCHANGED <<dom, listeners, scriptError, timers, typingVars, formVars>>
    /\ UNCHANGED <<canvasVars, shellVars>>

PageInit == InitOn(NarrowViewports)

PageNext ==
    \/ Startup
    \/ TickTimeout
    \/ ResumeTimeout
    \/ RevealTimeout
    \/ Click
    \/ KeyDown

PageSpec == PageInit /\ [][PageNext]_vars

(***************************************************************************)
(* The contact form.  A field's value is a sequence of characters.  An     *)
(* error message is an element [id, message]; the id of an element that is *)
(* neither in the form nor held by a pending timer can be given to a new   *)
(* element.  At most MaxTimers timers of a kind are pending at a time.     *)
(***************************************************************************)
Names == {<<>>, <<" ">>, <<"a">>}

Emails ==
    {<<>>, <<" ">>,
     <<"a", "@", "b", ".", "c">>,
     <<" ", "a", "@", "b", ".", "c", " ">>,
     <<"a", "@", "b", ".", "c", ".", "d">>,
     <<"a", "@", "b">>,
     <<"a", ".", "b", "@", "c">>,
     <<"a", " ", "b", "@", "c", ".", "d">>,
     <<"a", "@", "@", "b", ".", "c">>,
     <<"@", "b", ".", "c">>,
     <<"a", "@", "b", ".">>,
     <<"a", "@", ".", "c">>}

Messages == {<<" ">>, <<"h", "i">>}

Forms ==
    {<<(<<"a">>), email, (<<"h", "i">>)>> : email \in Emails}
        \cup {<<name, (<<"a", "@", "b", ".", "c">>), message>> :
                  name \in Names, message \in Messages}

trim(str) ==
    LET kept == {k \in 1..Len(str) : str[k] # " "}
    IN IF kept = {} THEN <<>>
       ELSE SubSeq(str, CHOOSE k \in kept : \A m \in kept : k <= m,
                        CHOOSE k \in kept : \A m \in kept : m <= k)

regexTest(str) ==
    \E at \in 2..Len(str) : \E dot \in (at + 2)..(Len(str) - 1) :
        /\ str[at] = "@"
        /\ str[dot] = "."
        /\ \A k \in 1..Len(str) : k # at => str[k] \notin {"@", " "}

ErrorIds == 1..MaxTimers

FreeIds ==
    ErrorIds \ ({formErrors[k].id : k \in 1..Len(formErrors)}
                 \cup {timers[k].el : k \in Pending("removeError")})

keepErrors(errs) == errs

withoutFirstError(errs) == IF errs = <<>> THEN <<>> ELSE Tail(errs)

showFormError(message) ==
    /\ FreeIds # {}
    /\ LET id == CHOOSE e \in FreeIds : \A g \in FreeIds : e <= g
       IN /\ formErrors' = <<[id |-> id, message |-> message]>>
                               \o withoutFirstError(formErrors)
          /\ timers' = Append(timers, timer("removeError", id))

Submit ==
    /\ "submit" \in listeners
    /\ \E fields \in Forms :
         LET name == trim(fields[1])
             email == trim(fields[2])
             message == trim(fields[3])
         IN
         /\ event' = dispatch("submit", "contact-form", fields)
         /\ IF name = <<>> \/ email = <<>> \/ message = <<>>
            THEN /\ verdict' = "prevented"
                 /\ showFormError("Please fill in all fields.")
                 /\ UNCHANGED btn
            ELSE IF ~regexTest(email)
            THEN /\ verdict' = "prevented"
                 /\ showFormError("Please enter a valid email address.")
                 /\ UNCHANGED btn
            ELSE /\ Cardinality(Pending("restoreButton")) < MaxTimers
                 /\ verdict' = "proceeded"
                 /\ btn' = [label |-> OpeningMailClient, disabled |-> TRUE]
                 /\ timers' = Append(timers, timer("restoreButton", 0))
                 /\ UNCHANGED formErrors
    /\ UNCHANGED <<dom, listeners, scriptError, typingVars, menuVars>>
    /\ UNCHANGED <<canvasVars, shellVars>>

ErrorTimeout(e) ==
    /\ \E k \in Pending("removeError") :
         /\ timers[k].el = e
         /\ timers' = Remove(timers, k)
    /\ formErrors' = SelectSeq(formErrors, LAMBDA err : err.id # e)
    /\ event' = dispatch("timeout", "removeError", <<>>)
    /\ UNCHANGED <<dom, listeners, scriptError, typingVars, menuVars, btn, verdict>>
    /\ UNCHANGED <<canvasVars, shellVars>>

ButtonTimeout ==
    /\ \E k \in Pending("restoreButton") : timers' = Remove(timers, k)
    /\ btn' = [label |-> SendMessage, disabled |-> FALSE]
    /\ event' = dispatch("timeout", "restoreButton", <<>>)
    /\ UNCHANGED <<dom, listeners, scriptError, typingVars, menuVars, formErrors, verdict>>
    /\ UNCHANGED <<canvasVars, shellVars>>

FormInit == InitOn(NarrowViewports) /\ ~hidden /\ viewport.innerWidth = 15

FormNext ==
    \/ Startup
    \/ Submit
    \/ \E e \in ErrorIds : ErrorTimeout(e)
    \/ ButtonTimeout

FormSpec ==
    /\ FormInit
    /\ [][FormNext]_vars
    /\ \A e \in ErrorIds : WF_vars(ErrorTimeout(e))
    /\ WF_vars(ButtonTimeout)

(***************************************************************************)
(* scripts/deploy.sh, one run of it, under set -euo pipefail.  A file is   *)
(* [stem, ext]; a glob "*.ext" matches the files of that extension.  An    *)
(* object of the bucket is [key, contentType, cacheControl].  build.sh,    *)
(* either aws s3 sync and aws cloudfront create-invalidation end with a    *)
(* status the host chooses.  aws s3 sync uploads the files the filters let *)
(* through that the bucket does not hold yet, and with --delete removes    *)
(* the objects the filters let through that the directory does not hold.   *)
(***************************************************************************)
file(stem, ext) == [stem |-> stem, ext |-> ext]

Files ==
    {file("index", "html"), file("main", "css"), file("robots", "txt"),
     file("photo", "webp")}

Settings == {"S3_BUCKET", "AWS_REGION", "CLOUDFRONT_DISTRIBUTION_ID"}

HtmlExcludes == {"css", "js", "png", "jpg", "svg", "ico", "woff2"}

AssetExcludes == {"html", "txt", "xml"}

HtmlMeta == [contentType |-> "text/html",
             cacheControl |-> "no-cache, no-store, must-revalidate"]

AssetMeta == [contentType |-> "guessed",
              cacheControl |-> "public, max-age=31536000, immutable"]

object(f, meta) ==
    [key |-> f, contentType |-> meta.contentType, cacheControl |-> meta.cacheControl]

excluded(f, excludes) == f.ext \in excludes

toUpload(local, objs, excludes) ==
    {f \in local : ~excluded(f, excludes) /\ ~(\E o \in objs : o.key = f)}

sync(local, objs, excludes, meta, sent) ==
    {o \in objs : excluded(o.key, excludes) \/ o.key \in local}
        \cup {object(f, meta) : f \in sent}

unsetOnly(v) == v = "unset"

nullOrUnset(v) == v \in {"unset", ""}

errexitOff(status) == FALSE

errexit(status) == status # 0

step(name, status) == [step |-> name, status |-> status]

exit(status) ==
    /\ shPc' = "exit"
    /\ exitStatus' = status

DeployInit ==
    /\ CanvasLoaded(NarrowViewports)
    /\ tIn = <<0, 0>>
    /\ PageLoaded({Elements})
    /\ shPc = "env"
    /\ envFile \in BOOLEAN
    /\ config \in [Settings -> {"unset", "", "set"}]
    /\ SKIP_BUILD \in BOOLEAN
    /\ srcTree \in {{}, {file("index", "html"), file("main", "css")}, Files}
    /\ DIST \in {noDir, dir({}), dir({file("index", "html")})}
    /\ exitStatus = -1
    /\ trace = <<>>
    /\ bucket \in {{}, {object(file("old", "html"), HtmlMeta)}}

CheckEnvFile ==
    /\ shPc = "env"
    /\ IF ~envFile THEN exit(1) ELSE shPc' = "config" /\ UNCHANGED exitStatus
    /\ UNCHANGED <<envFile, config, SKIP_BUILD, srcTree, DIST, trace, bucket>>
    /\ UNCHANGED <<canvasVars, pageVars>>

ValidateConfig ==
    /\ shPc = "config"
    /\ IF \E v \in Settings : nullOrUnset(config[v])
       THEN exit(1)
       ELSE shPc' = "build" /\ UNCHANGED exitStatus
    /\ UNCHANGED <<envFile, config, SKIP_BUILD, srcTree, DIST, trace, bucket>>
    /\ UNCHANGED <<canvasVars, pageVars>>

Build ==
    /\ shPc = "build"
    /\ IF SKIP_BUILD
       THEN /\ shPc' = "dist"
            /\ UNCHANGED <<DIST, trace, exitStatus>>
       ELSE \E status \in {0, 1} :
              /\ trace' = Append(trace, step("build", status))
              /\ IF status = 0
                 THEN DIST' = dir(srcTree)
                 ELSE DIST' \in {DIST, noDir, dir({}), dir(srcTree)}
              /\ IF errexit(status)
                 THEN exit(status)
                 ELSE shPc' = "dist" /\ UNCHANGED exitStatus
    /\ UNCHANGED <<envFile, config, SKIP_BUILD, srcTree, bucket>>
    /\ UNCHANGED <<canvasVars, pageVars>>

CheckDist ==
    /\ shPc = "dist"
    /\ IF ~DIST.dir \/ DIST.files = {}
       THEN exit(1)
       ELSE shPc' = "sync-html" /\ UNCHANGED exitStatus
    /\ UNCHANGED <<envFile, config, SKIP_BUILD, srcTree, DIST, trace, bucket>>
    /\ UNCHANGED <<canvasVars, pageVars>>

SyncHtml ==
    /\ shPc = "sync-html"
    /\ \E status \in {0, 1} :
         /\ trace' = Append(trace, step("sync-html", status))
         /\ \E sent \in SUBSET toUpload(DIST.files, bucket, HtmlExcludes) :
              /\ status = 0 => sent = toUpload(DIST.files, bucket, HtmlExcludes)
              /\ bucket' = IF status = 0
                            THEN sync(DIST.files, bucket, HtmlExcludes, HtmlMeta, sent)
                            ELSE bucket \cup {object(f, HtmlMeta) : f \in sent}
         /\ IF errexit(status)
            THEN exit(status)
            ELSE shPc' = "sync-assets" /\ UNCHANGED exitStatus
    /\ UNCHANGED <<envFile, config, SKIP_BUILD, srcTree, DIST>>
    /\ UNCHANGED <<canvasVars, pageVars>>

SyncAssets ==
    /\ shPc = "sync-assets"
    /\ \E status \in {0, 1} :
         /\ trace' = Append(trace, step("sync-assets", status))
         /\ \E sent \in SUBSET toUpload(DIST.files, bucket, AssetExcludes) :
              /\ status = 0 => sent = toUpload(DIST.files, bucket, AssetExcludes)
              /\ bucket' = IF status = 0
                            THEN sync(DIST.files, bucket, AssetExcludes, AssetMeta, sent)
                            ELSE bucket \cup {object(f, AssetMeta) : f \in sent}
         /\ IF errexit(status)
            THEN exit(status)
            ELSE shPc' = "invalidate" /\ UNCHANGED exitStatus
    /\ UNCHANGED <<envFile, config, SKIP_BUILD, srcTree, DIST>>
    /\ UNCHANGED <<canvasVars, pageVars>>

CreateInvalidation ==
    /\ shPc = "invalidate"
    /\ \E status \in {0, 1} :
         /\ trace' = Append(trace, step("invalidation", status))
         /\ IF errexit(status) THEN exit(status) ELSE exit(0)
    /\ UNCHANGED <<envFile, config, SKIP_BUILD, srcTree, DIST, bucket>>
    /\ UNCHANGED <<canvasVars, pageVars>>

DeployNext ==
    \/ CheckEnvFile
    \/ ValidateConfig
    \/ Build
    \/ CheckDist
    \/ SyncHtml
    \/ SyncAssets
    \/ CreateInvalidation

DeploySpec == DeployInit /\ [][DeployNext]_vars

(***************************************************************************)
(* Properties                                                              *)
(***************************************************************************)

\* C1: once a visibilitychange has reported the page hidden, and until one
\* reports it visible, no frame request is outstanding and no step draws.
C1_HiddenStopsDrawing == lastVis = "hidden" => (pending = {} /\ ~cleared)

\* C2: at most one next-frame request is outstanding in every reachable state.
C2_OneFrameLoop == Cardinality(pending) <= 1

TwoResizesWithinLimit ==
    /\ Len(resizeLog) = 2
    /\ resizeLog[2].at - resizeLog[1].at < RESIZE_LIMIT

RebuildsOfLastTwo ==
    (IF resizeLog[1].ran THEN 1 ELSE 0) + (IF resizeLog[2].ran THEN 1 ELSE 0)

SurfaceFresh == width = viewport.offsetWidth /\ height = viewport.offsetHeight

\* C4: every resize event is eventually followed by a rebuild at or after it:
\* whenever the surface size differs from the reported viewport size, a later
\* state has them equal again.
C4_TrailingEdge == (pc = "run" /\ ~SurfaceFresh) ~> SurfaceFresh

CountFor(W) == IF W \div 16 < 70 THEN W \div 16 ELSE 70

\* C5 (as claimed): after startup and after every rebuild the number of
\* particles is min(70, floor(W/16)) for the viewport width W of that moment.
C5_CountTracksViewport ==
    (pc = "run" /\ rebuilt) => Len(particles) = CountFor(viewport.innerWidth)

\* C5 (amended): at startup the number of particles is min(70, floor(W0/16))
\* for the viewport width W0 of that moment (1024 gives 64, 320 gives 20,
\* 2000 gives 70), never negative; no later step, a rebuild on resize
\* included, changes the number.
C5_CountFixedAtStartup ==
    [][/\ (pc = "load" /\ pc' = "run") =>
            /\ Len(particles') = CountFor(viewport.innerWidth)
            /\ Len(particles') >= 0
            /\ viewport.innerWidth = 1024 => Len(particles') = 64
            /\ viewport.innerWidth = 320 => Len(particles') = 20
            /\ viewport.innerWidth = 2000 => Len(particles') = 70
       /\ pc = "run" => Len(particles') = Len(particles)]_vars

C5_Witness ==
    /\ rebuilt
    /\ Len(resizeLog) > 0
    /\ Len(particles) = 70
    /\ CountFor(viewport.innerWidth) = 20

Between(lo, c, hi) == lo <= c /\ c <= hi

\* C6 (as claimed): every particle has x in [-10, width+10) and y in
\* [-10, height+10).
C6_WrapHalfOpen ==
    \A i \in 1..Len(particles) :
        /\ Between(-Px(10), particles[i].x, Px(width + 10) - 1)
        /\ Between(-Px(10), particles[i].y, Px(height + 10) - 1)

\* C6 (amended): every particle has x in [-10, width+10] and y in
\* [-10, height+10], both ends included: a particle that passes -10 is put
\* at width+10 (height+10) exactly.
C6_WrapClosed ==
    \A i \in 1..Len(particles) :
        /\ Between(-Px(10), particles[i].x, Px(width + 10))
        /\ Between(-Px(10), particles[i].y, Px(height + 10))

C6_Witness ==
    \E i \in 1..Len(particles) :
        /\ particles[i].x = Px(width + 10)
        /\ particles[i].y = Px(height + 10)

\* C7: a step that does not rebuild the set keeps the number of particles
\* and the vx, vy, r and t of each; a frame changes x and y only.
C7_FrameKeepsAttributes ==
    [][~rebuilt' =>
          /\ Len(particles') = Len(particles)
          /\ \A i \in 1..Len(particles) :
                 /\ particles'[i].vx = particles[i].vx
                 /\ particles'[i].vy = particles[i].vy
                 /\ particles'[i].r = particles[i].r
                 /\ particles'[i].t = particles[i].t]_vars

C7_Witness ==
    /\ cleared
    /\ ~rebuilt
    /\ \E i \in 1..Len(particles) :
           particles[i].x = Px(width + 10) /\ particles[i].vx < 0

PairsOf(n) == {ij \in (1..n) \X (1..n) : ij[1] < ij[2]}

Closer(a, b, dpx) ==
    LET dx == IF a.x < b.x THEN b.x - a.x ELSE a.x - b.x
        dy == IF a.y < b.y THEN b.y - a.y ELSE a.y - b.y
    IN dx < Px(dpx) /\ dy < Px(dpx) /\ dx * dx + dy * dy < Px(dpx) * Px(dpx)

LinesOf(i, j) == {k \in 1..Len(lines) : lines[k].i = i /\ lines[k].j = j}

\* C8: after a frame, every pair i < j of particles at distance d has exactly
\* one line when d < 160 and none when d >= 160; a line's alpha is
\* (1 - d/160) * 0.18, positive, smaller for a longer line, 0.09 at d = 80.
C8_LinesWithinConnectDist ==
    cleared =>
        /\ \A ij \in PairsOf(Len(particles)) :
              Cardinality(LinesOf(ij[1], ij[2])) =
                  IF Closer(particles[ij[1]], particles[ij[2]], 160) THEN 1 ELSE 0
        /\ \A k \in 1..Len(lines) :
              LET l == lines[k]
                  a == particles[l.i]
                  b == particles[l.j]
                  d2 == (a.x - b.x) * (a.x - b.x) + (a.y - b.y) * (a.y - b.y)
              IN /\ l.i < l.j
                 /\ l.dist * l.dist <= d2
                 /\ d2 < (l.dist + 1) * (l.dist + 1)
                 /\ l.alphaDen = 100 * Px(160)
                 /\ l.alphaNum = 18 * (Px(160) - l.dist)
                 /\ l.alphaNum > 0
                 /\ l.dist = Px(80) => 100 * l.alphaNum = 9 * l.alphaDen
        /\ \A k, m \in 1..Len(lines) :
              lines[k].dist < lines[m].dist =>
                  (lines[k].alphaNum > lines[m].alphaNum
                   /\ lines[k].alphaDen = lines[m].alphaDen)

C8_Witness ==
    /\ cleared
    /\ \E k \in 1..Len(lines) : lines[k].dist = Px(80)
    /\ \E ij \in PairsOf(Len(particles)) :
           /\ particles[ij[1]].x = particles[ij[2]].x
           /\ particles[ij[2]].y - particles[ij[1]].y = Px(160)
           /\ LinesOf(ij[1], ij[2]) = {}
    /\ \E k, m \in 1..Len(lines) : lines[k].dist < lines[m].dist

IsRounded(c, a, b, tn, td) ==
    LET n == a * td + (b - a) * tn
    IN 2 * td * c <= 2 * n + td /\ 2 * n + td < 2 * td * (c + 1)

IsColorOf(c, tn, td) ==
    /\ IsRounded(c.r, 124, 34, tn, td)
    /\ IsRounded(c.g, 109, 211, tn, td)
    /\ IsRounded(c.b, 250, 238, tn, td)
    /\ 34 <= c.r /\ c.r <= 124
    /\ 109 <= c.g /\ c.g <= 211
    /\ 238 <= c.b /\ c.b <= 250
    /\ tn = 0 => c = [r |-> 124, g |-> 109, b |-> 250]
    /\ tn = td => c = [r |-> 34, g |-> 211, b |-> 238]

ProbedColors ==
    /\ IsColorOf(cOut.c1, tIn[1], ProbeDen)
    /\ IsColorOf(cOut.c2, tIn[2], ProbeDen)
    /\ IsColorOf(cOut.avg, tIn[1] + tIn[2], 2 * ProbeDen)

\* C9 (as claimed): interpolateColor(t) is round(accent + (cyan - accent) * t)
\* in each channel, ACCENT at t = 0, CYAN at t = 1, between the two anchors,
\* non-increasing in t for r and non-decreasing in t for g and b; the same
\* for the average of two factors.
C9_BlueNonDecreasing ==
    (cOut # <<>> /\ tIn[1] <= tIn[2]) =>
        /\ ProbedColors
        /\ cOut.c1.r >= cOut.avg.r /\ cOut.avg.r >= cOut.c2.r
        /\ cOut.c1.g <= cOut.avg.g /\ cOut.avg.g <= cOut.c2.g
        /\ cOut.c1.b <= cOut.avg.b /\ cOut.avg.b <= cOut.c2.b

\* C9 (amended): as claimed, except that b, like r, is non-increasing in t
\* (250 at t = 0 down to 238 at t = 1); only g is non-decreasing.
C9_BlueNonIncreasing ==
    (cOut # <<>> /\ tIn[1] <= tIn[2]) =>
        /\ ProbedColors
        /\ cOut.c1.r >= cOut.avg.r /\ cOut.avg.r >= cOut.c2.r
        /\ cOut.c1.g <= cOut.avg.g /\ cOut.avg.g <= cOut.c2.g
        /\ cOut.c1.b >= cOut.avg.b /\ cOut.avg.b >= cOut.c2.b

C9_Witness ==
    /\ cOut # <<>>
    /\ tIn = <<0, ProbeDen>>
    /\ cOut.c1.b > cOut.avg.b
    /\ cOut.avg.b > cOut.c2.b

\* C10 (as claimed): after every visibilitychange that reports the page
\* visible, a frame eventually draws.
C10_DrawAfterEveryShow == (lastVis = "visible" /\ ~cleared) ~> cleared

\* C10 (amended): after every visibilitychange that reports the page visible,
\* the request made by the listener stays outstanding, and a frame eventually
\* draws, unless the page is hidden again before the callback is delivered.
C10_ResumesUnlessHidden ==
    /\ [](lastVis = "visible" => (animId \in pending /\ ~hidden))
    /\ (lastVis = "visible" /\ ~cleared) ~> (cleared \/ lastVis = "hidden")

C10_Witness == lastVis = "visible" /\ cleared /\ animId \in pending

CanvasAbsent == "hero-canvas" \notin dom /\ pc = "run"

\* C11: on a page without the element hero-canvas the renderer does nothing:
\* the script raises no error, the renderer adds neither its visibilitychange
\* nor its resize listener, builds no particle, draws nothing and requests no
\* frame, and typing, nav, menu and form are set up as their own elements allow.
C11_AbsentCanvasNoOp ==
    CanvasAbsent =>
        /\ ~scriptError
        /\ "visibilitychange" \notin listeners
        /\ "resize" \notin listeners
        /\ particles = <<>>
        /\ ~rebuilt
        /\ ~cleared
        /\ ops = <<>>
        /\ animId = 0
        /\ pending = {}
        /\ "typed-text" \in dom <=> (\E k \in 1..Len(timers) : timers[k].fn = "tick")
        /\ "nav" \in dom <=> "scroll" \in listeners
        /\ ("nav-toggle" \in dom /\ "nav-links" \in dom) <=>
               {"toggle.click", "a.click", "keydown", "document.click"} \subseteq listeners
        /\ "contact-form" \in dom <=> "submit" \in listeners

C11_Witness ==
    /\ CanvasAbsent
    /\ hidden
    /\ now > StartTime
    /\ "typed-text" \in dom
    /\ "submit" \in listeners

Ran(name) == \E k \in 1..Len(trace) : trace[k].step = name

Exited == shPc = "exit"

ConfigMissing == \E v \in Settings : config[v] = "unset" \/ config[v] = ""

DistUnusable == ~DIST.dir \/ DIST.files = {}

\* C12: deploy.sh ends with a non-zero status, having run neither sync nor the
\* invalidation, when .env is missing, when one of S3_BUCKET, AWS_REGION,
\* CLOUDFRONT_DISTRIBUTION_ID is unset or empty, or when dist/ is missing or
\* empty after the build step; in the first two cases the build has not run either.
C12_AbortsBeforeDeploying ==
    /\ (~envFile \/ ConfigMissing) =>
           /\ trace = <<>>
           /\ shPc \in {"env", "config", "exit"}
           /\ Exited => exitStatus # 0
    /\ (DistUnusable /\ shPc \notin {"env", "config", "build"}) =>
           /\ ~Ran("sync-html")
           /\ ~Ran("sync-assets")
           /\ ~Ran("invalidation")
           /\ shPc \in {"dist", "exit"}
           /\ Exited => exitStatus # 0

C12_Witness ==
    /\ Exited
    /\ envFile
    /\ ~ConfigMissing
    /\ Ran("build")
    /\ trace[1].status = 0
    /\ DIST = dir({})

StepsOfRun ==
    (IF SKIP_BUILD THEN <<>> ELSE <<"build">>)
        \o <<"sync-html", "sync-assets", "invalidation">>

\* C13: a run takes its steps in the order build (left out only under
\* --skip-build), first sync pass, second sync pass, invalidation; a step runs
\* only after every step before it has succeeded, so a failed step is the last
\* one of the run, which then ends with a non-zero status.
C13_StepsInOrder ==
    /\ Len(trace) <= Len(StepsOfRun)
    /\ \A k \in 1..Len(trace) :
          /\ trace[k].step = StepsOfRun[k]
          /\ k < Len(trace) => trace[k].status = 0
          /\ trace[k].status # 0 => (Exited /\ exitStatus # 0)
    /\ (Exited /\ exitStatus = 0) =>
          /\ Len(trace) = Len(StepsOfRun)
          /\ \A k \in 1..Len(trace) : trace[k].status = 0

C13_Witness ==
    /\ Exited
    /\ exitStatus = 0
    /\ ~SKIP_BUILD
    /\ Len(trace) = 4
    /\ trace[4].step = "invalidation"

BothPassesDone ==
    \E k \in 1..Len(trace) : trace[k].step = "sync-assets" /\ trace[k].status = 0

EveryFileUploaded ==
    /\ HtmlExcludes \cap AssetExcludes = {}
    /\ BothPassesDone => \A f \in DIST.files : \E o \in bucket : o.key = f

OnlyHtmlAsHtml ==
    \A o \in bucket :
        (o.contentType = "text/html" \/ o.cacheControl = "no-cache, no-store, must-revalidate")
            => o.key.ext = "html"

\* C16: no file is excluded by both sync passes, so once both have succeeded
\* every file of dist/ is an object of the bucket; and an object carries the
\* content type text/html and the no-cache header only if its key ends in .html.
C16_PassesCoverDistHtmlOnly == EveryFileUploaded /\ OnlyHtmlAsHtml

LastResize == resizeLog[Len(resizeLog)]

CallsDecided ==
    resizeLog # <<>> =>
        /\ LastResize.ran <=> LastResize.since >= RESIZE_LIMIT
        /\ Len(resizeLog) = 1 => LastResize.ran
        /\ (Len(resizeLog) = 2 /\ resizeLog[1].ran /\ resizeLog[2].ran) =>
               resizeLog[2].at - resizeLog[1].at >= RESIZE_LIMIT

RebuildOnResize == pc = "run" /\ rebuilt'

InvocationsApart ==
    RebuildOnResize =>
        /\ now' = now
        /\ last = 0 \/ now - last >= RESIZE_LIMIT
        /\ last' = now
        /\ resizeLog' # <<>>
        /\ resizeLog'[Len(resizeLog')] = [at |-> now, since |-> now - last, ran |-> TRUE]

\* C14: the throttled resize listener calls its callback at most once per
\* 200 ms: the first resize event of the page rebuilds; a later one rebuilds
\* exactly when 200 ms or more have passed since the last rebuild, so any two
\* rebuilds are at least 200 ms apart; an event that comes sooner is dropped,
\* and no later step that is not a resize event rebuilds in its place.
C14_ThrottleSpacing == []CallsDecided /\ [][InvocationsApart]_vars

C14_Witness ==
    /\ Len(resizeLog) = 2
    /\ resizeLog[1].ran
    /\ resizeLog[2].ran
    /\ resizeLog[2].at - resizeLog[1].at >= RESIZE_LIMIT
    /\ rebuilt

CallsNamed(name) == {k \in 1..Len(ops) : ops[k].call = name}

FrameInOrder ==
    LET n == Len(particles)
    IN IF ~cleared
       THEN ops = <<>>
       ELSE /\ Len(ops) = 2 * n + Len(lines) + 2
            /\ CallsNamed("clearRect") = {1}
            /\ \A i \in 1..n :
                  /\ ops[2 * i] = [call |-> "move", i |-> i, j |-> 0]
                  /\ ops[2 * i + 1] = [call |-> "draw", i |-> i, j |-> 0]
            /\ Len(arcs) = n
            /\ \A i \in 1..n : arcs[i].x = particles[i].x /\ arcs[i].y = particles[i].y
            /\ \A k \in 1..Len(lines) :
                  ops[2 * n + 1 + k] = [call |-> "stroke", i |-> lines[k].i, j |-> lines[k].j]
            /\ CallsNamed("requestAnimationFrame") = {Len(ops)}
            /\ animId \in pending

FrameUninterrupted ==
    /\ cleared' =>
          /\ hidden' = hidden
          /\ viewport' = viewport
          /\ lastVis' = lastVis
          /\ resizeLog' = resizeLog
          /\ Cardinality(pending') <= Cardinality(pending) + 1
          /\ pc = "run" =>
                /\ ~rebuilt'
                /\ width' = width /\ height' = height
                /\ Len(particles') = Len(particles)
                /\ \A i \in 1..Len(particles) :
                      /\ particles'[i].vx = particles[i].vx
                      /\ particles'[i].vy = particles[i].vy
                      /\ particles'[i].r = particles[i].r
                      /\ particles'[i].t = particles[i].t
    /\ (pc = "run" /\ rebuilt') => (~cleared' /\ ops' = <<>>)
    /\ lastVis' # lastVis => (~cleared' /\ ops' = <<>>)

\* C15: a step that runs frame() clears the surface, then moves and draws each
\* particle once in turn, then strokes the lines, then requests one frame, in
\* that order and in the one step; no rebuild and no visibility change happens
\* in that step, so the particles it draws all come from the set it started with.
C15_FrameRunsToCompletion == []FrameInOrder /\ [][FrameUninterrupted]_vars

C15_Witness ==
    /\ pc = "run"
    /\ cleared
    /\ ~rebuilt
    /\ Len(particles) = 4
    /\ Len(lines) >= 2
    /\ lastVis = "visible"
    /\ resizeLog # <<>>

MenuAgrees ==
    /\ ariaExpanded = "true" <=> menuOpen
    /\ menuOpen <=> bodyOverflow = "hidden"
    /\ ariaExpanded \in {"true", "false"}
    /\ bodyOverflow \in {"", "hidden"}

MenuEvents ==
    /\ (event'.type = "click" /\ event'.target = "toggle") => menuOpen' = ~menuOpen
    /\ (event'.type = "click" /\ event'.target \in {"link", "outside"}) => ~menuOpen'
    /\ (event'.type = "keydown" /\ event'.target = "Escape") => ~menuOpen'
    /\ menuOpen' # menuOpen => event'.type \in {"click", "keydown"}

\* C17: from a closed menu, after any clicks and key presses, aria-expanded is
\* "true" exactly when the menu has the class open, exactly when the body's
\* overflow is "hidden"; a click on the toggle flips the menu, and a click on a
\* nav link, a click outside the menu and the Escape key leave it closed.
C17_MenuStateAgrees == []MenuAgrees /\ [][MenuEvents]_vars

C17_Witness ==
    /\ menuOpen
    /\ ariaExpanded = "true"
    /\ bodyOverflow = "hidden"
    /\ event = [type |-> "click", target |-> "toggle", detail |-> <<>>]
    /\ wordIdx = 1

TypingTimers == Pending("tick") \cup Pending("resume")

TypingInStep ==
    pc = "run" =>
        /\ wordIdx \in 0..2
        /\ charIdx \in 0..Len(words[wordIdx + 1])
        /\ Len(textContent) = charIdx
        /\ \A k \in 1..charIdx : textContent[k] = words[wordIdx + 1][k]
        /\ Cardinality(TypingTimers) = 1
        /\ (charIdx = Len(words[wordIdx + 1]) /\ ~deleting) =>
               (paused /\ Pending("resume") # {})
        /\ paused <=> Pending("resume") # {}

TypingCycle ==
    /\ wordIdx' # wordIdx =>
          /\ wordIdx' = (wordIdx + 1) % 3
          /\ deleting /\ ~deleting'
          /\ charIdx = 1 /\ charIdx' = 0
    /\ (deleting' /\ ~deleting) =>
          /\ charIdx = Len(words[wordIdx + 1])
          /\ Pending("resume") # {}
          /\ event'.target = "resume"
    /\ charIdx' > charIdx => (charIdx' = charIdx + 1 /\ ~deleting /\ ~deleting')
    /\ charIdx' < charIdx =>
          (charIdx' = charIdx - 1 /\ (deleting \/ event'.target = "resume"))
    /\ (pc = "run" /\ event'.type = "timeout" /\ event'.target # "reveal") =>
          charIdx' # charIdx

\* C18: once the script has run, charIdx is between 0 and the length of the
\* current word and the text shown is that word's prefix of charIdx characters;
\* exactly one timer of the effect is pending; a word is typed one character a
\* tick to its end, held until the pause timer expires, deleted one character
\* a tick to nothing, and only then the next word in cyclic order begins.
C18_TypingCycle == []TypingInStep /\ [][TypingCycle]_vars

C18_Witness ==
    /\ wordIdx = 0
    /\ charIdx = 2
    /\ ~deleting
    /\ textContent = <<"w", "e">>
    /\ event.type = "timeout"
    /\ menuOpen

NonBlank(str) == \E k \in 1..Len(str) : str[k] # " "

MatchingEmails ==
    {<<"a", "@", "b", ".", "c">>,
     <<" ", "a", "@", "b", ".", "c", " ">>,
     <<"a", "@", "b", ".", "c", ".", "d">>}

Acceptable(fields) ==
    /\ NonBlank(fields[1])
    /\ NonBlank(fields[3])
    /\ fields[2] \in MatchingEmails

Shown(e) == \E k \in 1..Len(formErrors) : formErrors[k].id = e

SubmitDecided ==
    event'.type = "submit" =>
        /\ verdict' = "proceeded" <=> Acceptable(event'.detail)
        /\ verdict' = "prevented" <=> ~Acceptable(event'.detail)
        /\ verdict' = "prevented" =>
              /\ btn' = btn
              /\ Len(formErrors') = 1
              /\ ~Shown(formErrors'[1].id)
        /\ verdict' = "proceeded" => formErrors' = formErrors

\* C19: a submit proceeds exactly when name, email and message are non-empty
\* once trimmed and the trimmed email matches the pattern; otherwise it is
\* prevented, the submit button is as it was and a new error message is shown;
\* the form never holds two error messages, and every error message that is
\* shown is removed later.
C19_FormValidation ==
    /\ [](Len(formErrors) <= 1)
    /\ [][SubmitDecided]_vars
    /\ \A e \in ErrorIds : Shown(e) ~> ~Shown(e)

C19_Witness ==
    /\ verdict = "prevented"
    /\ event.type = "submit"
    /\ event.detail[2] = <<"a", "@", "b">>
    /\ Len(formErrors) = 1
    /\ formErrors[1].id = 2
    /\ btn.disabled
====
